---- MODULE Spec2Model ----
(***************************************************************************)
(* State-machine model of crawl4ai/demo-crawl.py: nine demo coroutines     *)
(* driving an AsyncWebCrawler session, plus the files they read and write. *)
(* Each action is one segment of a coroutine between two blocking points   *)
(* (an await, a file operation, one loop iteration).  The library and the  *)
(* operating system are the environment: every call into them returns one  *)
(* of the outcomes it can produce, chosen nondeterministically.            *)
(***************************************************************************)
EXTENDS Integers, Sequences, FiniteSets, TLC

VARIABLES
    cwd,        \* os.getcwd(): the working directory, a token sequence
    fs,         \* the files the harness touches: canonical path -> content
    runs,       \* number of script invocations started so far
    scenario,   \* the demo main() runs in this invocation
    pc,         \* position inside the running demo
    session,    \* the AsyncWebCrawler of this run: "none", "open", "closed"
    inflight,   \* locator of the crawl being awaited, or "none"
    results,    \* the value the last arun / arun_many returned
    i,          \* 1-based position of the running for-loop
    trace,      \* history: what this run has done so far, in order
    genCount    \* history: successful generate_schema calls over all runs

vars == <<cwd, fs, runs, scenario, pc, session, inflight, results, i,
          trace, genCount>>

-----------------------------------------------------------------------------
(* Bounds *)

\* largest number of items in the collection one arun call returns
MaxResults == 2
\* number of script invocations in one behaviour
MaxRuns == 2

-----------------------------------------------------------------------------
(* Paths.  A path is a sequence of tokens; the token "/" is the separator  *)
(* and adjacent tokens concatenate, as string + string does.               *)

Sep == "/"

\* working directories os.getcwd() may return (no trailing separator
\* except for the root)
CwdSet == { <<Sep>>, <<Sep, "srv", Sep, "w">> }

RECURSIVE Split(_, _, _)
Split(p, cur, acc) ==
    IF p = <<>>
    THEN IF cur = <<>> THEN acc ELSE Append(acc, cur)
    ELSE IF Head(p) = Sep
         THEN Split(Tail(p), <<>>, IF cur = <<>> THEN acc ELSE Append(acc, cur))
         ELSE Split(Tail(p), Append(cur, Head(p)), acc)

\* a path resolved by open(): relative to the working directory unless it
\* starts with the separator
Resolve(c, p) == IF p # <<>> /\ Head(p) = Sep THEN p ELSE c \o <<Sep>> \o p

\* the file a path names: its components, repeated separators collapsed
Canon(c, p) == Split(Resolve(c, p), <<>>, <<>>)

SchemaFilePath(c) == c \o <<"tmp", Sep, "schema.json">>
ScrapeHtml == <<"scrape.html">>
ImagesJson == <<"images.json">>
LinksJson == <<"links.json">>
ScreenshotPath(c, k) ==
    c \o <<Sep, "tmp", Sep, "example-screenshot-", ToString(k), ".png">>
PdfPath(c, k) == c \o <<Sep, "tmp", Sep, "example-pdf-", ToString(k), ".pdf">>
SamplePath(c) == c \o <<Sep, "tmp", Sep, "sample.html">>

HarnessPaths(c) ==
    { SchemaFilePath(c), ScrapeHtml, ImagesJson, LinksJson, SamplePath(c) }
    \cup { ScreenshotPath(c, k) : k \in 0 .. MaxResults - 1 }
    \cup { PdfPath(c, k) : k \in 0 .. MaxResults - 1 }

FsPaths(c) == { Canon(c, p) : p \in HarnessPaths(c) }

Content == { "absent", "valid", "malformed" }

NoPath == <<>>

-----------------------------------------------------------------------------
(* Values returned by the library *)

\* A crawl result as the harness sees it: the success flag, and whether the
\* derived fields the demo goes on to read (markdown, extracted_content,
\* media, links, screenshot, pdf, metadata) are populated and well formed.
Result == [success : BOOLEAN, present : BOOLEAN]

\* the collection an arun call returns; attribute access on the collection
\* itself reads its first item
ResultSets == UNION { [1 .. n -> Result] : n \in 1 .. MaxResults }

Urls == << "https://news.ycombinator.com/", "https://example.com/",
           "https://httpbin.org/html" >>

\* what arun_many returns: one result per url
ManyResultSets == [1 .. Len(Urls) -> [success : BOOLEAN, present : {TRUE}]]

\* os.environ["OPEN_ROUTER_KEY"]: TRUE when the variable is set
KeySet == BOOLEAN

Scenarios ==
    { "basic", "parallel", "fit", "llm", "css", "deep", "media", "shot", "raw" }

-----------------------------------------------------------------------------
(* History events *)

Ev(e, n, p, k, f) ==
    [ev |-> e, name |-> n, path |-> p, idx |-> k, flag |-> f, sess |-> session]

Log(evs) == trace' = trace \o evs

-----------------------------------------------------------------------------
(* Initial state: nothing runs yet.  A schema file may be left from an     *)
(* earlier invocation (well formed or not); scrape.html may or may not be  *)
(* there; the output files and the temporary sample do not exist yet.      *)

Init ==
    /\ cwd \in CwdSet
    /\ fs \in { f \in [FsPaths(cwd) -> Content] :
                  /\ f[Canon(cwd, ScrapeHtml)] # "malformed"
                  /\ \A q \in FsPaths(cwd) :
                        q \notin { Canon(cwd, SchemaFilePath(cwd)),
                                   Canon(cwd, ScrapeHtml) }
                        => f[q] = "absent" }
    /\ runs = 0
    /\ scenario = "none"
    /\ pc = "idle"
    /\ session = "none"
    /\ inflight = "none"
    /\ results = <<>>
    /\ i = 0
    /\ trace = <<>>
    /\ genCount = 0

\* main(): one demo call is active per invocation of the script
main ==
    /\ pc \in { "idle", "done", "failed" }
    /\ runs < MaxRuns
    /\ runs' = runs + 1
    /\ \E s \in Scenarios : scenario' = s /\ pc' = s
    /\ session' = "none"
    /\ inflight' = "none"
    /\ results' = <<>>
    /\ i' = 0
    /\ trace' = <<>>
    /\ UNCHANGED <<cwd, fs, genCount>>

-----------------------------------------------------------------------------
(* The async-with block and the arun call, shared by all demos *)

\* faulty variant: the session is closed by a call at the end of the block, which
\* an exception skips
ExitWith_NoCloseOnError(exc) == IF exc THEN session ELSE "closed"

\* the session after the block is left, normally or by an exception
ExitWith(exc) == "closed"

\* faulty variant: the crawler is constructed but its session is never started
Enter_SessionNotStarted(from, to, before) ==
    /\ pc = from
    /\ pc' = to
    /\ Log(before)
    /\ UNCHANGED <<cwd, fs, runs, scenario, session, inflight, results,
                   i, genCount>>

\* async with AsyncWebCrawler() as crawler: __aenter__ starts the session,
\* or raises and the demo ends without one
Enter(from, to, before) ==
    /\ pc = from
    /\ \/ /\ session' = "open"
          /\ pc' = to
          /\ Log(before \o <<Ev("open", "", NoPath, 0, TRUE)>>)
       \/ /\ pc' = "failed"
          /\ Log(before \o <<Ev("raise", "aenter", NoPath, 0, FALSE)>>)
          /\ UNCHANGED session
    /\ UNCHANGED <<cwd, fs, runs, scenario, inflight, results, i, genCount>>

\* an exception raised inside the block: __aexit__ runs, then it propagates
RaiseInWith(evs, what) ==
    /\ session' = ExitWith(TRUE)
    /\ pc' = "failed"
    /\ inflight' = "none"
    /\ Log(evs \o <<Ev("raise", what, NoPath, 0, FALSE),
                    Ev("close", "", NoPath, 0, FALSE)>>)

\* await crawler.arun(loc, config): the request is issued and the coroutine
\* suspends; bypass is whether the config carries CacheMode.BYPASS
Arun(from, to, loc, bypass) ==
    /\ pc = from
    /\ pc' = to
    /\ inflight' = loc
    /\ Log(<<Ev("crawl", loc, NoPath, 0, bypass)>>)
    /\ UNCHANGED <<cwd, fs, runs, scenario, session, results, i, genCount>>

\* the awaited arun returns a collection, or raises
ArunDone(from, to, sets) ==
    /\ pc = from
    /\ \/ /\ \E rs \in sets : results' = rs
          /\ pc' = to
          /\ i' = 1
          /\ inflight' = "none"
          /\ Log(<<Ev("return", inflight, NoPath, 0, TRUE)>>)
          /\ UNCHANGED session
       \/ /\ RaiseInWith(<<>>, "arun")
          /\ UNCHANGED <<results, i>>
    /\ UNCHANGED <<cwd, fs, runs, scenario, genCount>>

\* the block ends normally: __aexit__ closes the session
Leave(from, to) ==
    /\ pc = from
    /\ session' = ExitWith(FALSE)
    /\ pc' = to
    /\ Log(<<Ev("close", "", NoPath, 0, TRUE)>>)
    /\ UNCHANGED <<cwd, fs, runs, scenario, inflight, results, i, genCount>>

-----------------------------------------------------------------------------
(* demo_basic_crawl *)

BasicEnter == scenario = "basic" /\ Enter("basic", "basic_arun", <<>>)

BasicArun ==
    /\ scenario = "basic"
    /\ Arun("basic_arun", "basic_wait", "https://news.ycombinator.com/", FALSE)

BasicDone == scenario = "basic" /\ ArunDone("basic_wait", "basic_loop", ResultSets)

\* faulty variant: a result with success = false makes the demo request the url again
BasicIter_RetryOnFailure ==
    /\ pc = "basic_loop"
    /\ i <= Len(results)
    /\ IF results[i].success
       THEN /\ i' = i + 1
            /\ Log(<<Ev("check", "success", NoPath, i, TRUE),
                     Ev("read", "markdown", NoPath, i, results[i].success)>>)
            /\ UNCHANGED <<pc, inflight>>
       ELSE /\ pc' = "basic_wait"
            /\ inflight' = "https://news.ycombinator.com/"
            /\ Log(<<Ev("check", "success", NoPath, i, FALSE),
                     Ev("fail_msg", "", NoPath, i, FALSE),
                     Ev("crawl", "https://news.ycombinator.com/", NoPath, 0, FALSE)>>)
            /\ UNCHANGED i
    /\ UNCHANGED <<cwd, fs, runs, scenario, session, results, genCount>>

\* one iteration of the for loop: the success branch reads markdown, the
\* other prints the failure notice
BasicIter ==
    /\ pc = "basic_loop"
    /\ i <= Len(results)
    /\ i' = i + 1
    /\ IF results[i].success
       THEN Log(<<Ev("check", "success", NoPath, i, TRUE),
                  Ev("read", "markdown", NoPath, i, results[i].success)>>)
       ELSE Log(<<Ev("check", "success", NoPath, i, FALSE),
                  Ev("fail_msg", "", NoPath, i, FALSE)>>)
    /\ UNCHANGED <<cwd, fs, runs, scenario, pc, session, inflight,
                   results, genCount>>

BasicExit == i > Len(results) /\ Leave("basic_loop", "done")

-----------------------------------------------------------------------------
(* demo_parallel_crawl *)

ParEnter == scenario = "parallel" /\ Enter("parallel", "par_arun", <<>>)

\* await crawler.arun_many(urls): one batch call carrying every url
ParArunMany ==
    /\ pc = "par_arun"
    /\ pc' = "par_wait"
    /\ inflight' = "batch"
    /\ Log([k \in 1 .. Len(Urls) |-> Ev("crawl", Urls[k], NoPath, 0, FALSE)])
    /\ UNCHANGED <<cwd, fs, runs, scenario, session, results, i, genCount>>

ParDone == scenario = "parallel" /\ ArunDone("par_wait", "par_loop", ManyResultSets)

\* prints the url and 'Success' or 'Failed'; no derived field is read
ParIter ==
    /\ pc = "par_loop"
    /\ i <= Len(results)
    /\ i' = i + 1
    /\ Log(<<Ev("status", "success", NoPath, i, results[i].success)>>)
    /\ UNCHANGED <<cwd, fs, runs, scenario, pc, session, inflight,
                   results, genCount>>

ParExit == i > Len(results) /\ Leave("par_loop", "done")

-----------------------------------------------------------------------------
(* demo_fit_markdown *)

FitEnter == scenario = "fit" /\ Enter("fit", "fit_arun", <<>>)

FitArun ==
    /\ scenario = "fit"
    /\ Arun("fit_arun", "fit_wait",
            "https://en.wikipedia.org/wiki/Python_(programming_language)", FALSE)

FitDone == scenario = "fit" /\ ArunDone("fit_wait", "fit_exit", ResultSets)

\* the arun call is the whole body of the block
FitExit == scenario = "fit" /\ Leave("fit_exit", "fit_show")

\* the two prints after the block: result.markdown.raw_markdown and
\* result.markdown.fit_markdown, read without looking at result.success
FitShow ==
    /\ pc = "fit_show"
    /\ IF results[1].present
       THEN /\ pc' = "done"
            /\ Log(<<Ev("read", "markdown", NoPath, 1, results[1].success),
                     Ev("read", "markdown", NoPath, 1, results[1].success)>>)
       ELSE /\ pc' = "failed"
            /\ Log(<<Ev("read", "markdown", NoPath, 1, results[1].success),
                     Ev("raise", "markdown", NoPath, 1, FALSE)>>)
    /\ UNCHANGED <<cwd, fs, runs, scenario, session, inflight, results,
                   i, genCount>>

-----------------------------------------------------------------------------
(* demo_llm_structured_extraction_no_schema *)

\* faulty variant: the key is looked up with a default (os.environ.get), so a missing
\* variable does not stop the demo
LlmConfigure_DefaultKey ==
    /\ pc = "llm"
    /\ \E key \in KeySet :
          Log(<<Ev("envread", "OPEN_ROUTER_KEY", NoPath, 0, key)>>)
    /\ pc' = "llm_enter"
    /\ UNCHANGED <<cwd, fs, runs, scenario, session, inflight, results,
                   i, genCount>>

\* LLMExtractionStrategy(llm_config=LLMConfig(api_token=os.environ[...])):
\* the lookup raises KeyError when the variable is not set
LlmConfigure ==
    /\ pc = "llm"
    /\ \E key \in KeySet :
          /\ Log(<<Ev("envread", "OPEN_ROUTER_KEY", NoPath, 0, key)>>)
          /\ pc' = IF key THEN "llm_enter" ELSE "failed"
    /\ UNCHANGED <<cwd, fs, runs, scenario, session, inflight, results,
                   i, genCount>>

LlmEnter == scenario = "llm" /\ Enter("llm_enter", "llm_arun", <<>>)

LlmArun ==
    /\ scenario = "llm"
    /\ Arun("llm_arun", "llm_wait", "https://news.ycombinator.com/", FALSE)

LlmDone == scenario = "llm" /\ ArunDone("llm_wait", "llm_loop", ResultSets)

\* the body of 'for result in results' of the two extraction demos:
\* json.loads(result.extracted_content) on success, a notice otherwise
ExtractIter(loop) ==
    /\ pc = loop
    /\ i <= Len(results)
    /\ IF results[i].success
       THEN IF results[i].present
            THEN /\ i' = i + 1
                 /\ Log(<<Ev("check", "success", NoPath, i, TRUE),
                          Ev("read", "extracted_content", NoPath, i, TRUE)>>)
                 /\ UNCHANGED <<pc, session, inflight>>
            ELSE /\ RaiseInWith(<<Ev("check", "success", NoPath, i, TRUE),
                                  Ev("read", "extracted_content", NoPath, i, TRUE)>>,
                                "json.loads")
                 /\ UNCHANGED i
       ELSE /\ i' = i + 1
            /\ Log(<<Ev("check", "success", NoPath, i, FALSE),
                     Ev("fail_msg", "", NoPath, i, FALSE)>>)
            /\ UNCHANGED <<pc, session, inflight>>
    /\ UNCHANGED <<cwd, fs, runs, scenario, results, genCount>>

LlmIter == scenario = "llm" /\ ExtractIter("llm_loop")

LlmExit == i > Len(results) /\ Leave("llm_loop", "done")

-----------------------------------------------------------------------------
(* demo_css_structured_extraction_schema *)

\* faulty variant: the existence test is ignored and the schema is always generated
CssExists_AlwaysGenerate ==
    /\ pc = "css"
    /\ LET q == Canon(cwd, SchemaFilePath(cwd)) IN
         /\ Log(<<Ev("exists", "schema", q, 0, FALSE)>>)
         /\ pc' = "css_html"
    /\ UNCHANGED <<cwd, fs, runs, scenario, session, inflight, results,
                   i, genCount>>

\* os.path.exists(schema_file_path)
CssExists ==
    /\ pc = "css"
    /\ LET q == Canon(cwd, SchemaFilePath(cwd)) IN
         /\ Log(<<Ev("exists", "schema", q, 0, fs[q] # "absent")>>)
         /\ pc' = IF fs[q] # "absent" THEN "css_load" ELSE "css_html"
    /\ UNCHANGED <<cwd, fs, runs, scenario, session, inflight, results,
                   i, genCount>>

\* with open(schema_file_path, "r") as f: schema = json.load(f)
CssLoad ==
    /\ pc = "css_load"
    /\ LET q == Canon(cwd, SchemaFilePath(cwd)) IN
         IF fs[q] = "valid"
         THEN /\ pc' = "css_enter"
              /\ Log(<<Ev("readfile", "schema", q, 0, TRUE)>>)
         ELSE /\ pc' = "failed"
              /\ Log(<<Ev("readfile", "schema", q, 0, FALSE),
                       Ev("raise", "json.load", NoPath, 0, FALSE)>>)
    /\ UNCHANGED <<cwd, fs, runs, scenario, session, inflight, results,
                   i, genCount>>

\* with open("scrape.html", "r") as f: html = f.read()
CssReadHtml ==
    /\ pc = "css_html"
    /\ LET q == Canon(cwd, ScrapeHtml) IN
         IF fs[q] # "absent"
         THEN /\ pc' = "css_generate"
              /\ Log(<<Ev("readfile", "scrape", q, 0, TRUE)>>)
         ELSE /\ pc' = "failed"
              /\ Log(<<Ev("raise", "open", q, 0, FALSE)>>)
    /\ UNCHANGED <<cwd, fs, runs, scenario, session, inflight, results,
                   i, genCount>>

\* JsonCssExtractionStrategy.generate_schema(html, llm_config=LLMConfig(
\* api_token=os.environ[...]), query): the lookup raises when the variable
\* is not set; the remote call returns a schema or raises
CssGenerate ==
    /\ pc = "css_generate"
    /\ \E key \in KeySet :
          IF ~key
          THEN /\ pc' = "failed"
               /\ Log(<<Ev("envread", "OPEN_ROUTER_KEY", NoPath, 0, FALSE)>>)
               /\ UNCHANGED genCount
          ELSE \/ /\ pc' = "css_write"
                  /\ genCount' = genCount + 1
                  /\ Log(<<Ev("envread", "OPEN_ROUTER_KEY", NoPath, 0, TRUE),
                           Ev("generate", "schema", NoPath, 0, TRUE)>>)
               \/ /\ pc' = "failed"
                  /\ Log(<<Ev("envread", "OPEN_ROUTER_KEY", NoPath, 0, TRUE),
                           Ev("generate", "schema", NoPath, 0, FALSE),
                           Ev("raise", "generate_schema", NoPath, 0, FALSE)>>)
                  /\ UNCHANGED genCount
    /\ UNCHANGED <<cwd, fs, runs, scenario, session, inflight, results, i>>

\* with open(schema_file_path, "w") as f: json.dump(schema, f, indent=2)
\* open may fail (nothing is written); a dump that fails leaves the file
\* truncated
CssWrite ==
    /\ pc = "css_write"
    /\ LET q == Canon(cwd, SchemaFilePath(cwd)) IN
         \/ /\ fs' = [fs EXCEPT ![q] = "valid"]
            /\ pc' = "css_enter"
            /\ Log(<<Ev("write", "schema", q, 0, TRUE)>>)
         \/ /\ fs' = [fs EXCEPT ![q] = "malformed"]
            /\ pc' = "failed"
            /\ Log(<<Ev("write", "schema", q, 0, FALSE),
                     Ev("raise", "json.dump", NoPath, 0, FALSE)>>)
         \/ /\ pc' = "failed"
            /\ Log(<<Ev("raise", "open", q, 0, FALSE)>>)
            /\ UNCHANGED fs
    /\ UNCHANGED <<cwd, runs, scenario, session, inflight, results, i,
                   genCount>>

\* print the schema, build JsonCssExtractionStrategy(schema) and the run
\* config, then enter the block
CssEnter ==
    /\ scenario = "css"
    /\ Enter("css_enter", "css_arun", <<Ev("strategy", "schema", NoPath, 0, TRUE)>>)

CssArun ==
    /\ scenario = "css"
    /\ Arun("css_arun", "css_wait", "https://thehackernews.com/", FALSE)

CssDone == scenario = "css" /\ ArunDone("css_wait", "css_loop", ResultSets)

CssIter == scenario = "css" /\ ExtractIter("css_loop")

CssExit == i > Len(results) /\ Leave("css_loop", "done")

-----------------------------------------------------------------------------
(* demo_deep_crawl *)

DeepEnter == scenario = "deep" /\ Enter("deep", "deep_arun", <<>>)

DeepArun ==
    /\ scenario = "deep"
    /\ Arun("deep_arun", "deep_wait",
            "https://pawsey.atlassian.net/wiki/spaces/US/pages/51923228/Visualisation+Documentation",
            FALSE)

DeepDone == scenario = "deep" /\ ArunDone("deep_wait", "deep_loop", ResultSets)

\* depth = result.metadata.get("depth", 0), then a print
DeepIter ==
    /\ pc = "deep_loop"
    /\ i <= Len(results)
    /\ IF results[i].present
       THEN /\ i' = i + 1
            /\ Log(<<Ev("meta", "depth", NoPath, i, results[i].success)>>)
            /\ UNCHANGED <<pc, session, inflight>>
       ELSE /\ RaiseInWith(<<Ev("meta", "depth", NoPath, i, results[i].success)>>,
                           "metadata")
            /\ UNCHANGED i
    /\ UNCHANGED <<cwd, fs, runs, scenario, results, genCount>>

DeepExit == i > Len(results) /\ Leave("deep_loop", "done")

-----------------------------------------------------------------------------
(* demo_media_and_links *)

MediaEnter == scenario = "media" /\ Enter("media", "media_arun", <<>>)

MediaArun ==
    /\ scenario = "media"
    /\ Arun("media_arun", "media_wait",
            "https://en.wikipedia.org/wiki/Computer_graphics", FALSE)

MediaDone == scenario = "media" /\ ArunDone("media_wait", "media_loop", ResultSets)

\* one iteration of 'for i, r in enumerate(result)': result.media and
\* result.links are read from the collection (its first item), then
\* images.json and links.json are written
MediaIter ==
    /\ pc = "media_loop"
    /\ i <= Len(results)
    /\ LET reads == <<Ev("read", "media", NoPath, 1, results[1].success),
                      Ev("read", "links", NoPath, 1, results[1].success)>>
           img == Canon(cwd, ImagesJson)
           lnk == Canon(cwd, LinksJson)
       IN IF ~results[1].present
          THEN /\ RaiseInWith(<<reads[1]>>, "media")
               /\ UNCHANGED <<fs, i>>
          ELSE \/ /\ fs' = [fs EXCEPT ![img] = "valid", ![lnk] = "valid"]
                  /\ i' = i + 1
                  /\ Log(reads \o <<Ev("write", "images", img, i, TRUE),
                                    Ev("write", "links", lnk, i, TRUE)>>)
                  /\ UNCHANGED <<pc, session, inflight>>
               \/ /\ fs' = [fs EXCEPT ![img] = "valid"]
                  /\ RaiseInWith(reads \o <<Ev("write", "images", img, i, TRUE)>>,
                                 "open")
                  /\ UNCHANGED i
               \/ /\ RaiseInWith(reads, "open")
                  /\ UNCHANGED <<fs, i>>
    /\ UNCHANGED <<cwd, runs, scenario, results, genCount>>

MediaExit == i > Len(results) /\ Leave("media_loop", "done")

-----------------------------------------------------------------------------
(* demo_screenshot_and_pdf *)

ShotEnter == scenario = "shot" /\ Enter("shot", "shot_arun", <<>>)

ShotArun ==
    /\ scenario = "shot"
    /\ Arun("shot_arun", "shot_wait",
            "https://en.wikipedia.org/wiki/Giant_anteater", FALSE)

ShotDone == scenario = "shot" /\ ArunDone("shot_wait", "shot_exit", ResultSets)

\* the arun call is the whole body of the block
ShotExit == scenario = "shot" /\ Leave("shot_exit", "shot_loop")

\* one iteration of the loop after the block: result.screenshot and
\* result.pdf are read from the collection (its first item) and, when
\* set, written to the files numbered by the loop index
ShotIter ==
    /\ pc = "shot_loop"
    /\ i <= Len(results)
    /\ LET reads == <<Ev("read", "screenshot", NoPath, 1, results[1].success),
                      Ev("read", "pdf", NoPath, 1, results[1].success)>>
           png == Canon(cwd, ScreenshotPath(cwd, i - 1))
           pdf == Canon(cwd, PdfPath(cwd, i - 1))
       IN IF ~results[1].present
          THEN /\ i' = i + 1
               /\ Log(reads)
               /\ UNCHANGED <<fs, pc>>
          ELSE \/ /\ fs' = [fs EXCEPT ![png] = "valid", ![pdf] = "valid"]
                  /\ i' = i + 1
                  /\ Log(<<reads[1], Ev("write", "screenshot", png, i, TRUE),
                           reads[2], Ev("write", "pdf", pdf, i, TRUE)>>)
                  /\ UNCHANGED pc
               \/ /\ fs' = [fs EXCEPT ![png] = "valid"]
                  /\ pc' = "failed"
                  /\ Log(<<reads[1], Ev("write", "screenshot", png, i, TRUE),
                           reads[2], Ev("raise", "open", pdf, i, FALSE)>>)
                  /\ UNCHANGED i
               \/ /\ pc' = "failed"
                  /\ Log(<<reads[1], Ev("raise", "open", png, i, FALSE)>>)
                  /\ UNCHANGED <<fs, i>>
    /\ UNCHANGED <<cwd, runs, scenario, session, inflight, results, genCount>>

ShotEnd ==
    /\ pc = "shot_loop"
    /\ i > Len(results)
    /\ pc' = "done"
    /\ UNCHANGED <<cwd, fs, runs, scenario, session, inflight, results,
                   i, trace, genCount>>

-----------------------------------------------------------------------------
(* demo_raw_html_and_file *)

RawLocator == "raw://<html>"
FileLocator == "file://sample.html"

\* with open(file_path, "w") as f: f.write(raw_html)
RawWrite ==
    /\ pc = "raw"
    /\ LET q == Canon(cwd, SamplePath(cwd)) IN
         \/ /\ fs' = [fs EXCEPT ![q] = "valid"]
            /\ pc' = "raw_enter"
            /\ Log(<<Ev("write", "sample", q, 0, TRUE)>>)
         \/ /\ pc' = "failed"
            /\ Log(<<Ev("raise", "open", q, 0, FALSE)>>)
            /\ UNCHANGED fs
    /\ UNCHANGED <<cwd, runs, scenario, session, inflight, results, i,
                   genCount>>

RawEnter == scenario = "raw" /\ Enter("raw_enter", "raw_arun", <<>>)

RawArunRaw == scenario = "raw" /\ Arun("raw_arun", "raw_wait", RawLocator, TRUE)

RawDoneRaw == scenario = "raw" /\ ArunDone("raw_wait", "raw_mid", ResultSets)

\* faulty variant: os.remove(file_path) runs before the file:// crawl is issued
RawArunFile_RemoveEarly ==
    /\ pc = "raw_mid"
    /\ LET evs == <<Ev("status", "success", NoPath, 1, results[1].success),
                    Ev("read", "markdown", NoPath, 1, results[1].success)>>
           q == Canon(cwd, SamplePath(cwd))
       IN IF results[1].present
          THEN /\ pc' = "raw_wait2"
               /\ inflight' = FileLocator
               /\ fs' = [fs EXCEPT ![q] = "absent"]
               /\ Log(evs \o <<Ev("remove", "sample", q, 0, TRUE),
                                Ev("crawl", FileLocator, NoPath, 0, TRUE)>>)
               /\ UNCHANGED session
          ELSE RaiseInWith(evs, "markdown") /\ UNCHANGED fs
    /\ UNCHANGED <<cwd, runs, scenario, results, i, genCount>>

\* between the two awaits: print raw_result.success, read
\* raw_result.markdown.raw_markdown, then issue the file:// crawl
RawArunFile ==
    /\ pc = "raw_mid"
    /\ LET evs == <<Ev("status", "success", NoPath, 1, results[1].success),
                    Ev("read", "markdown", NoPath, 1, results[1].success)>>
       IN IF results[1].present
          THEN /\ pc' = "raw_wait2"
               /\ inflight' = FileLocator
               /\ Log(evs \o <<Ev("crawl", FileLocator, NoPath, 0, TRUE)>>)
               /\ UNCHANGED session
          ELSE RaiseInWith(evs, "markdown")
    /\ UNCHANGED <<cwd, fs, runs, scenario, results, i, genCount>>

RawDoneFile == scenario = "raw" /\ ArunDone("raw_wait2", "raw_tail", ResultSets)

\* print file_result.success, read file_result.markdown.raw_markdown, then
\* the block ends
RawExit ==
    /\ pc = "raw_tail"
    /\ LET evs == <<Ev("status", "success", NoPath, 1, results[1].success),
                    Ev("read", "markdown", NoPath, 1, results[1].success)>>
       IN IF results[1].present
          THEN /\ session' = ExitWith(FALSE)
               /\ pc' = "raw_remove"
               /\ Log(evs \o <<Ev("close", "", NoPath, 0, TRUE)>>)
               /\ UNCHANGED inflight
          ELSE RaiseInWith(evs, "markdown")
    /\ UNCHANGED <<cwd, fs, runs, scenario, results, i, genCount>>

\* os.remove(file_path), after the block
RawRemove ==
    /\ pc = "raw_remove"
    /\ LET q == Canon(cwd, SamplePath(cwd)) IN
         /\ fs' = [fs EXCEPT ![q] = "absent"]
         /\ Log(<<Ev("remove", "sample", q, 0, TRUE)>>)
    /\ pc' = "done"
    /\ UNCHANGED <<cwd, runs, scenario, session, inflight, results, i,
                   genCount>>

-----------------------------------------------------------------------------

Next ==
    \/ main
    \/ BasicEnter \/ BasicArun \/ BasicDone \/ BasicIter \/ BasicExit
    \/ ParEnter \/ ParArunMany \/ ParDone \/ ParIter \/ ParExit
    \/ FitEnter \/ FitArun \/ FitDone \/ FitExit \/ FitShow
    \/ LlmConfigure \/ LlmEnter \/ LlmArun \/ LlmDone \/ LlmIter \/ LlmExit
    \/ CssExists \/ CssLoad \/ CssReadHtml \/ CssGenerate \/ CssWrite
    \/ CssEnter \/ CssArun \/ CssDone \/ CssIter \/ CssExit
    \/ DeepEnter \/ DeepArun \/ DeepDone \/ DeepIter \/ DeepExit
    \/ MediaEnter \/ MediaArun \/ MediaDone \/ MediaIter \/ MediaExit
    \/ ShotEnter \/ ShotArun \/ ShotDone \/ ShotExit \/ ShotIter \/ ShotEnd
    \/ RawWrite \/ RawEnter \/ RawArunRaw \/ RawDoneRaw \/ RawArunFile
    \/ RawDoneFile \/ RawExit \/ RawRemove

Spec == Init /\ [][Next]_vars

-----------------------------------------------------------------------------
(* Properties *)

Ended == pc \in { "done", "failed" }

Events(e) == { k \in DOMAIN trace : trace[k].ev = e }

SchemaFile == Canon(cwd, SchemaFilePath(cwd))
SampleFile == Canon(cwd, SamplePath(cwd))

\* the files a demo leaves as its output (the temporary sample is not one)
OutputWrites == { k \in Events("write") : trace[k].name # "sample" }

\* <cwd>/tmp/<name>
InTmp(c, q) ==
    LET cc == Split(c, <<>>, <<>>) IN
      /\ Len(q) = Len(cc) + 2
      /\ SubSeq(q, 1, Len(cc)) = cc
      /\ q[Len(cc) + 1] = <<"tmp">>

\* C1: no run ends with its session still open: a session that was opened
\* is closed when the demo ends, normally or by an uncaught failure.
C1_SessionClosedAtEnd ==
    Ended => session = IF Events("open") # {} THEN "closed" ELSE "none"

\* a run that failed by an exception raised while its session was open
C1_Witness ==
    /\ pc = "failed"
    /\ \E k \in Events("raise") : trace[k].sess = "open"

\* C2: a derived field of a result is read only after that result's success
\* flag was tested and found true.
C2_ReadsOnlyAfterSuccessCheck ==
    \A k \in Events("read") :
        /\ trace[k].flag
        /\ \E j \in Events("check") :
              j < k /\ trace[j].idx = trace[k].idx /\ trace[j].flag

\* C3: when the raw/local-input demo has ended after writing the temporary
\* sample file and receiving a crawl result, that file no longer exists.
C3_TempFileRemovedAtEnd ==
    (scenario = "raw" /\ Ended
        /\ (\E k \in Events("write") : trace[k].name = "sample")
        /\ Events("return") # {})
    => fs[SampleFile] = "absent"

\* C4 as stated: over all runs the schema is generated at most once.
C4_GeneratedAtMostOnce == genCount <= 1

\* what one run of the schema-based demo does, in order
C4_RunOrder ==
    scenario = "css" =>
      /\ \A g \in Events("generate") :
            \E x \in Events("exists") : x < g /\ ~trace[x].flag
      /\ \A x \in Events("exists") :
            trace[x].flag =>
              /\ Events("generate") = {} /\ Events("write") = {}
              /\ Events("envread") = {}
              /\ \A k \in Events("strategy") :
                    \E r \in Events("readfile") :
                       /\ r < k /\ trace[r].flag
                       /\ trace[r].path = trace[x].path
      /\ \A x \in Events("exists") :
            ~trace[x].flag =>
              \A k \in Events("strategy") \cup Events("crawl") :
                 \E g \in Events("generate"), w \in Events("write") :
                    /\ x < g /\ g < w /\ w < k
                    /\ trace[g].flag /\ trace[w].flag
                    /\ trace[w].path = trace[x].path
                    /\ fs[trace[w].path] = "valid"
      /\ \A k \in Events("crawl") : \E t \in Events("strategy") : t < k

\* C4 (amended): a run that finds the schema file loads it and does not
\* generate; a run that does not find it generates the schema and writes it
\* to that same path before the strategy is built and before any crawl; and
\* once the file exists no step of any run generates a schema or changes
\* the file.  (A run whose generation or write fails leaves no file, and
\* the next run generates again.)
C4_GenerateOnlyWhenAbsent ==
    /\ []C4_RunOrder
    /\ [][ fs[SchemaFile] # "absent"
             => genCount' = genCount /\ fs'[SchemaFile] = fs[SchemaFile] ]_vars

\* a second run that found the file the first run generated and wrote
C4_Witness ==
    /\ scenario = "css" /\ runs = 2 /\ genCount = 1
    /\ Events("crawl") # {}
    /\ \E x \in Events("exists") : trace[x].flag

\* C5: within one run every locator is requested at most once, and after an
\* uncaught failure no crawl request is issued at all.
C5_NoRetry ==
    /\ \A j, k \in Events("crawl") : j # k => trace[j].name # trace[k].name
    /\ \A r \in Events("raise") : \A k \in Events("crawl") : k < r
    /\ \A f \in Events("fail_msg") \cup Events("return") :
          \A k \in Events("crawl") :
             k > f => \A j \in Events("crawl") :
                         j < f => trace[j].name # trace[k].name

\* a finished run in which a result came back with success = false
C5_Witness == Ended /\ Events("fail_msg") # {}

\* C6: OPEN_ROUTER_KEY is looked up only by the schema-less LLM demo and by
\* the schema-based demo after it found no schema file; a lookup that finds
\* the variable unset ends the demo at once, with no session opened, no
\* crawl issued and no file written.
C6_KeyLookup ==
    \A k \in Events("envread") :
        /\ scenario \in { "llm", "css" }
        /\ scenario = "css" =>
              \E x \in Events("exists") : x < k /\ ~trace[x].flag
        /\ ~trace[k].flag =>
              /\ k = Len(trace)
              /\ pc = "failed"
              /\ session = "none"
              /\ Events("open") \cup Events("crawl") \cup Events("write") = {}

\* the schema-based demo ended by the failed lookup
C6_Witness ==
    /\ scenario = "css"
    /\ \E k \in Events("envread") : ~trace[k].flag

\* C7: every file written lies in <cwd>/tmp/.
C7_WritesUnderCwdTmp ==
    \A k \in Events("write") : InTmp(cwd, trace[k].path)

\* C8: within one run no output file is written twice, and no file is read
\* after it was written.
C8_WrittenOnceNeverReadBack ==
    /\ \A j, k \in OutputWrites : j # k => trace[j].path # trace[k].path
    /\ \A w \in OutputWrites : \A r \in Events("readfile") :
          trace[r].path = trace[w].path => r < w

\* C9 as stated: every read and every write of a result's derived fields
\* happens while the session is open.
C9_DerivedUseWhileOpen ==
    \A k \in Events("read") \cup OutputWrites :
        trace[k].name # "schema" => trace[k].sess = "open"

\* C9 (amended): the session is opened before the first crawl call, every
\* crawl call is issued and returns while it is open, and a result's derived
\* fields are read only after the call returned.  demo_fit_markdown and
\* demo_screenshot_and_pdf read, print and write the derived fields after
\* the session was closed; every other demo does so while it is open.
C9_CrawlInsideSession ==
    /\ \A k \in Events("crawl") \cup Events("return") :
          /\ trace[k].sess = "open"
          /\ \E o \in Events("open") : o < k
          /\ \A c \in Events("close") : k < c
    /\ \A k \in Events("read") : \E r \in Events("return") : r < k
    /\ \A k \in Events("read") \cup OutputWrites :
          trace[k].name # "schema" =>
             trace[k].sess =
                IF scenario \in { "fit", "shot" } THEN "closed" ELSE "open"

\* the screenshot demo has written a file after its session was closed
C9_Witness ==
    /\ scenario = "shot" /\ pc = "done"
    /\ \E k \in OutputWrites : trace[k].sess = "closed"

\* C10: in the raw/local-input demo the sample file is written before the
\* session is opened and exists while the file:// crawl is in flight; the
\* raw:// crawl has returned before the file:// crawl is issued; the file is
\* removed only after both crawls returned and the session was closed; both
\* calls carry the cache-bypass mode.
C10_SampleFileLifetime ==
    scenario = "raw" =>
      /\ inflight = FileLocator => fs[SampleFile] = "valid"
      /\ \A o \in Events("open") :
            \E w \in Events("write") : w < o /\ trace[w].name = "sample"
      /\ \A k \in Events("crawl") :
            /\ trace[k].flag
            /\ fs[SampleFile] = "valid" \/ Events("remove") # {}
            /\ trace[k].name = FileLocator =>
                  \E c, r \in DOMAIN trace :
                     /\ c < r /\ r < k
                     /\ trace[c].ev = "crawl" /\ trace[c].name = RawLocator
                     /\ trace[r].ev = "return" /\ trace[r].name = RawLocator
      /\ \A d \in Events("remove") :
            /\ trace[d].sess = "closed"
            /\ \A loc \in { RawLocator, FileLocator } :
                  \E r \in Events("return") : r < d /\ trace[r].name = loc
            /\ \E c \in Events("close") : c < d

\* the demo ran to its end: both crawls returned and the file was removed
C10_Witness ==
    /\ scenario = "raw" /\ pc = "done"
    /\ Events("remove") # {}

====
